---- MODULE Spec2Model ----
(***************************************************************************)
(* Model of src/src/repo_miner.py: the two export pipelines fetch_commits  *)
(* and fetch_issues and the command-line driver main().                    *)
(*                                                                         *)
(* Encoding of Python values.  A value that may be None is a sequence of   *)
(* length 0 (None) or 1 (the value): None == <<>>, Some(x) == <<x>>.       *)
(* A str whose contents matter (the commit message) is a sequence of       *)
(* one-character strings.  A datetime is [day, hour]: its proleptic        *)
(* ordinal and its time of day, in hours.  A DataFrame is                  *)
(* [columns, rows], rows being a sequence of functions column -> cell;     *)
(* pandas' missing-value marker is encoded like None.                      *)
(***************************************************************************)
EXTENDS Integers, Sequences, FiniteSets, TLC

(* ------------------------------ bounds -------------------------------- *)

\* longest remote collection the remote client serves
MaxLen == 4
\* largest --max value on the command line
MaxCount == 3
\* longest commit message, in characters
MaxMsgLen == 4
\* latest calendar day of an issue timestamp
MaxDay == 5

(* --------------------------- Python values ---------------------------- *)

None == <<>>

Some(x) == <<x>>

HoursPerDay == 24

DateTimes == [day : 1..MaxDay, hour : 0..(HoursPerDay - 1)]

\* datetime.isoformat(): the date, the separator "T", the time of day
isoformat(dt) == <<dt.day, "T", dt.hour>>

\* timedelta(days, hours) as the constructor normalises it:
\* 0 <= hours < 24, the carry (or borrow) moved into days
timedelta(days, hours) ==
    [days |-> days + (hours \div HoursPerDay), hours |-> hours % HoursPerDay]

\* variant of datetime_sub: the difference of the calendar dates only
datetime_sub_dates(a, b) == [days |-> a.day - b.day, hours |-> 0]

\* datetime.__sub__: the difference of the ordinals and of the times of day,
\* handed to the timedelta constructor
datetime_sub(a, b) == timedelta(a.day - b.day, a.hour - b.hour)

(* ------------------------- commit normaliser -------------------------- *)

NL == "\n"

Chars == {"a", NL}

\* str.find(ch) from 1-based position i on: the position of the first ch, else 0
RECURSIVE str_find(_, _, _)
str_find(s, ch, i) ==
    IF i > Len(s) THEN 0
    ELSE IF s[i] = ch THEN i
    ELSE str_find(s, ch, i + 1)

\* s.split(sep, 1)[0]: the part of s before the first sep, s when it has none
split_first(s, sep) ==
    LET k == str_find(s, sep, 1)
    IN  IF k = 0 THEN s ELSE SubSeq(s, 1, k - 1)

\* variant of first_line: the message kept whole
first_line_whole(message) ==
    IF message # None /\ message[1] # <<>> THEN message[1] ELSE <<>>

\* line 45: commit_data.message.split("\n", 1)[0] if commit_data.message else ""
first_line(message) ==
    IF message # None /\ message[1] # <<>>
    THEN split_first(message[1], NL)
    ELSE <<>>

\* lines 40-53: the record dict of one commit
normalize_commit(commit) ==
    LET commit_data == commit.commit
        author      == commit_data.author
    IN  [sha          |-> commit.sha,
         author_name  |-> IF author # None THEN author[1].name ELSE None,
         author_email |-> IF author # None THEN author[1].email ELSE None,
         date         |-> IF author # None /\ author[1].date # None
                          THEN Some(isoformat(author[1].date[1]))
                          ELSE None,
         message      |-> first_line(commit_data.message)]

(* -------------------------- issue normaliser -------------------------- *)

\* variant of is_pull_request: nothing is taken for a pull request
is_pull_request_never(issue) == FALSE

\* line 87: issue.pull_request is not None
is_pull_request(issue) == issue.pull_request # None

\* lines 92-95: the day component of closed_at - created_at, None unless
\* both timestamps are set (a datetime is always truthy)
open_duration(issue) ==
    IF issue.closed_at # None /\ issue.created_at # None
    THEN Some(datetime_sub(issue.closed_at[1], issue.created_at[1]).days)
    ELSE None

\* lines 90-107: the record dict of one issue
normalize_issue(issue) ==
    [id         |-> issue.id,
     number     |-> issue.number,
     title      |-> issue.title,
     user       |-> IF issue.user # None THEN Some(issue.user[1].login) ELSE None,
     state      |-> issue.state,
     created_at |-> IF issue.created_at # None
                    THEN Some(isoformat(issue.created_at[1])) ELSE None,
     closed_at  |-> IF issue.closed_at # None
                    THEN Some(isoformat(issue.closed_at[1])) ELSE None,
     comments   |-> issue.comments,
     open_duration_days |-> open_duration(issue)]

(* ----------------------------- DataFrame ------------------------------ *)

\* line 60: the columns fetch_commits asks pandas for
CommitColumns == <<"sha", "author", "email", "date", "message">>

\* lines 116-120: the columns fetch_issues asks pandas for
IssueColumns ==
    <<"id", "number", "title", "user", "state", "created_at", "closed_at",
      "comments", "open_duration_days">>

\* pd.DataFrame.from_records(records, columns=columns) on a list of dicts:
\* one row per dict, in order; each requested column is looked up by name in
\* the dict, a name the dict has no key for gives the missing-value marker,
\* and a key that is no requested column is dropped
from_records(recs, columns) ==
    [columns |-> columns,
     rows    |-> [i \in 1..Len(recs) |->
                    [c \in {columns[j] : j \in 1..Len(columns)} |->
                        IF c \in DOMAIN recs[i] THEN recs[i][c] ELSE None]]]

\* df.to_csv(path, index=False): the header row, then one line per row with
\* the cells in column order, and no index column
to_csv(df, path) ==
    [path   |-> path,
     header |-> df.columns,
     lines  |-> [i \in 1..Len(df.rows) |->
                    [j \in 1..Len(df.columns) |-> df.rows[i][df.columns[j]]]]]

(* ------------------------- pipeline helpers --------------------------- *)

\* variant of token_missing: only an unset variable counts as missing
token_missing_unset(github_token) == github_token = None

\* variant of token_missing: the check is absent
token_missing_unchecked(github_token) == FALSE

\* lines 25, 71: not github_token (unset, or set to the empty string)
token_missing(github_token) == github_token = None \/ github_token[1] = ""

\* variant of limit_reached: an absent limit stops the loop as well
limit_reached_absent(max, count) == IF max = None THEN TRUE ELSE count >= max[1]

\* lines 56, 110: max is not None and count >= max
limit_reached(max, count) == max # None /\ count >= max[1]

\* variant of append_record: the new record goes to the front
append_record_front(recs, rec) == <<rec>> \o recs

\* lines 47, 97: records.append(rec)
append_record(recs, rec) == Append(recs, rec)

\* variant of propagate: the failed statement is run again
propagate_retry(at) == at

\* no try/except anywhere: an exception raised at any statement leaves
\* fetch_*() and main() and ends the process
propagate(at) == "aborted"

\* variant of main_reads: the output path is read before the fetch
main_reads_out(command) == {"command", "repo", "max", "state", "out"}

\* lines 154-155, 159-160: the attributes of args main() reads to choose the
\* command and to call its fetch function
main_reads(command) ==
    IF command = "fetch-commits"
    THEN {"command", "repo", "max"}
    ELSE {"command", "repo", "state", "max"}

(* ------------------------------ inputs -------------------------------- *)

Commands == {"fetch-commits", "fetch-issues"}

States == {"all", "open", "closed"}

\* the command lines: --repo may be left out (argparse then rejects the
\* line), --max is any integer or left out, and only fetch-issues has --state
Argvs ==
    { a \in [command : Commands,
             repo    : {None, Some("owner/name")},
             state   : States,
             max     : {None} \cup {Some(n) : n \in (-1)..MaxCount},
             out     : {"out.csv"}] :
        a.command = "fetch-commits" => a.state = "all" }

\* GITHUB_TOKEN: unset, set to the empty string, or set
Tokens == {None, Some(""), Some("token")}

Alice == [name |-> Some("alice"), email |-> Some("alice@example.org"),
          date |-> Some([day |-> 1, hour |-> 12])]

\* the commit objects the remote serves to the pipeline: with and without
\* authored-commit metadata, with no, an empty and a two-line message
CommitShapes ==
    [author  : {None, Some(Alice)},
     message : {None, Some(<<>>), Some(<<"a", NL, "a">>)}]

PullRequestStub == [url |-> "pulls/1"]

\* the issue objects the remote serves to the pipeline: issues and pull
\* requests, open (never closed) and closed a day and a half after creation
IssueShapes ==
    { [pull_request |-> pr, state |-> st.state, created_at |-> st.created_at,
       closed_at |-> st.closed_at] :
        pr \in {None, Some(PullRequestStub)},
        st \in { [state |-> "open",
                  created_at |-> Some([day |-> 1, hour |-> 12]),
                  closed_at |-> None],
                 [state |-> "closed",
                  created_at |-> Some([day |-> 1, hour |-> 12]),
                  closed_at |-> Some([day |-> 3, hour |-> 0])] } }

mk_commit(i, shape) == [sha |-> i, commit |-> shape]

mk_issue(i, shape) ==
    [id |-> i, number |-> i, title |-> "title", user |-> Some([login |-> "bob"]),
     state |-> shape.state, created_at |-> shape.created_at,
     closed_at |-> shape.closed_at, comments |-> 0,
     pull_request |-> shape.pull_request]

\* repo.get_commits(): a collection of at most MaxLen commits; the sha of a
\* commit is its position, so that shas are unique
CommitCollections ==
    UNION { { [i \in 1..n |-> mk_commit(i, f[i])] : f \in [1..n -> CommitShapes] } :
            n \in 0..MaxLen }

\* repo.get_issues(state=state): a collection of at most MaxLen items, all
\* of the requested state (the filter is applied by the server)
IssueCollections(state) ==
    LET shapes == { s \in IssueShapes : state = "all" \/ s.state = state }
    IN  UNION { { [i \in 1..n |-> mk_issue(i, f[i])] : f \in [1..n -> shapes] } :
                n \in 0..MaxLen }

(* ------------------------------- state -------------------------------- *)

VARIABLES
    argv,       \* the command line
    token,      \* os.environ.get("GITHUB_TOKEN")
    pc,         \* the statement main() or the fetch function is about to run
    error,      \* the exception that ended the run, None while there is none
    usedArgs,   \* the attributes of args read so far
    calls,      \* the calls made on the remote client so far, with their outcome
    remote,     \* the collection repo.get_commits() / repo.get_issues() serves
    idx,        \* how many items of the collection the for loop has taken
    records,    \* the list records of the fetch function
    count,      \* the counter count of the fetch function
    df,         \* the DataFrame the fetch function returned, None before
    file,       \* the file at args.out, None while it does not exist
    stdout,     \* the summary line printed, None before
    nin,        \* a remote object handed to a normaliser on its own
    nout        \* the record the normaliser made of nin, None before

vars == <<argv, token, pc, error, usedArgs, calls, remote, idx, records, count,
          df, file, stdout, nin, nout>>

Init ==
    /\ argv \in Argvs
    /\ token \in Tokens
    /\ pc = "parse_args"
    /\ error = None
    /\ usedArgs = {}
    /\ calls = <<>>
    /\ remote = <<>>
    /\ idx = 0
    /\ records = <<>>
    /\ count = 0
    /\ df = None
    /\ file = None
    /\ stdout = None
    /\ nin = None
    /\ nout = None

call(op, ok) == [op |-> op, ok |-> ok]

\* line 151: parser.parse_args(); a line without --repo is rejected
ParseArgs ==
    /\ pc = "parse_args"
    /\ IF argv.repo = None
       THEN /\ pc' = "aborted"
            /\ error' = Some("SystemExit")
       ELSE /\ pc' = "dispatch"
            /\ error' = error
    /\ UNCHANGED <<argv, token, usedArgs, calls, remote, idx, records, count,
                   df, file, stdout, nin, nout>>

\* lines 154-155, 159-160: the command is chosen and its fetch function
\* called with args.repo, (args.state,) args.max_*
Dispatch ==
    /\ pc = "dispatch"
    /\ usedArgs' = usedArgs \cup main_reads(argv.command)
    /\ pc' = "read_token"
    /\ UNCHANGED <<argv, token, error, calls, remote, idx, records, count,
                   df, file, stdout, nin, nout>>

\* lines 24-26, 70-72: the token is read and checked
ReadToken ==
    /\ pc = "read_token"
    /\ IF token_missing(token)
       THEN /\ pc' = "aborted"
            /\ error' = Some("EnvironmentError")
       ELSE /\ pc' = "auth"
            /\ error' = error
    /\ UNCHANGED <<argv, token, usedArgs, calls, remote, idx, records, count,
                   df, file, stdout, nin, nout>>

\* lines 29-30, 75-76: Auth.Token(github_token); Github(auth=auth)
MakeClient ==
    /\ pc = "auth"
    /\ calls' = calls \o <<call("Auth.Token", TRUE), call("Github", TRUE)>>
    /\ pc' = "get_repo"
    /\ UNCHANGED <<argv, token, error, usedArgs, remote, idx, records, count,
                   df, file, stdout, nin, nout>>

\* lines 31, 77: git.get_repo(repo_name), which the remote may fail
GetRepo ==
    /\ pc = "get_repo"
    /\ \E ok \in BOOLEAN :
        /\ calls' = Append(calls, call("get_repo", ok))
        /\ IF ok
           THEN /\ pc' = "get_collection"
                /\ error' = error
           ELSE /\ pc' = propagate("get_repo")
                /\ error' = Some("GithubException")
    /\ UNCHANGED <<argv, token, usedArgs, remote, idx, records, count,
                   df, file, stdout, nin, nout>>

\* lines 34, 80: repo.get_commits() / repo.get_issues(state=state), which the
\* remote may fail; the collection it serves is the remote's choice
GetCollection ==
    /\ pc = "get_collection"
    /\ \E ok \in BOOLEAN :
        /\ calls' = Append(calls,
                call(IF argv.command = "fetch-commits"
                     THEN "get_commits" ELSE "get_issues", ok))
        /\ IF ok
           THEN /\ remote' \in (IF argv.command = "fetch-commits"
                                THEN CommitCollections
                                ELSE IssueCollections(argv.state))
                /\ pc' = "iterate"
                /\ error' = error
           ELSE /\ remote' = remote
                /\ pc' = propagate("get_collection")
                /\ error' = Some("GithubException")
    /\ UNCHANGED <<argv, token, usedArgs, idx, records, count,
                   df, file, stdout, nin, nout>>

\* lines 39-57: one turn of the for loop of fetch_commits: the iterator is
\* asked for the next commit (a remote read, which may fail, and which ends
\* the loop when the collection is exhausted), the commit is normalised and
\* appended, and the limit is tested
IterCommit ==
    /\ pc = "iterate"
    /\ argv.command = "fetch-commits"
    /\ \E ok \in BOOLEAN :
        /\ calls' = Append(calls, call("next", ok))
        /\ IF ~ok
           THEN /\ pc' = propagate("iterate")
                /\ error' = Some("GithubException")
                /\ UNCHANGED <<idx, records, count>>
           ELSE IF idx = Len(remote)
           THEN /\ pc' = "build_df"
                /\ UNCHANGED <<error, idx, records, count>>
           ELSE /\ idx' = idx + 1
                /\ records' = append_record(records, normalize_commit(remote[idx + 1]))
                /\ count' = count + 1
                /\ pc' = IF limit_reached(argv.max, count + 1)
                         THEN "build_df" ELSE "iterate"
                /\ error' = error
    /\ UNCHANGED <<argv, token, usedArgs, remote, df, file, stdout, nin, nout>>

\* lines 85-111: one turn of the for loop of fetch_issues: as for commits,
\* but an item that is a pull request is passed over before anything else
IterIssue ==
    /\ pc = "iterate"
    /\ argv.command = "fetch-issues"
    /\ \E ok \in BOOLEAN :
        /\ calls' = Append(calls, call("next", ok))
        /\ IF ~ok
           THEN /\ pc' = propagate("iterate")
                /\ error' = Some("GithubException")
                /\ UNCHANGED <<idx, records, count>>
           ELSE IF idx = Len(remote)
           THEN /\ pc' = "build_df"
                /\ UNCHANGED <<error, idx, records, count>>
           ELSE IF is_pull_request(remote[idx + 1])
           THEN /\ idx' = idx + 1
                /\ UNCHANGED <<pc, error, records, count>>
           ELSE /\ idx' = idx + 1
                /\ records' = append_record(records, normalize_issue(remote[idx + 1]))
                /\ count' = count + 1
                /\ pc' = IF limit_reached(argv.max, count + 1)
                         THEN "build_df" ELSE "iterate"
                /\ error' = error
    /\ UNCHANGED <<argv, token, usedArgs, remote, df, file, stdout, nin, nout>>

\* lines 60-61, 114-122: the DataFrame is built and returned to main()
BuildDf ==
    /\ pc = "build_df"
    /\ df' = Some(from_records(records,
                    IF argv.command = "fetch-commits"
                    THEN CommitColumns ELSE IssueColumns))
    /\ pc' = "to_csv"
    /\ UNCHANGED <<argv, token, error, usedArgs, calls, remote, idx, records,
                   count, file, stdout, nin, nout>>

\* lines 156, 161: df.to_csv(args.out, index=False)
ToCsv ==
    /\ pc = "to_csv"
    /\ usedArgs' = usedArgs \cup {"out"}
    /\ file' = Some(to_csv(df[1], argv.out))
    /\ pc' = "print"
    /\ UNCHANGED <<argv, token, error, calls, remote, idx, records, count,
                   df, stdout, nin, nout>>

\* lines 157, 162: print(f"Saved {len(df)} ... to {args.out}")
PrintSummary ==
    /\ pc = "print"
    /\ stdout' = Some([saved |-> Len(df[1].rows), to |-> argv.out])
    /\ pc' = "done"
    /\ UNCHANGED <<argv, token, error, usedArgs, calls, remote, idx, records,
                   count, df, file, nin, nout>>

Next ==
    \/ ParseArgs
    \/ Dispatch
    \/ ReadToken
    \/ MakeClient
    \/ GetRepo
    \/ GetCollection
    \/ IterCommit
    \/ IterIssue
    \/ BuildDf
    \/ ToCsv
    \/ PrintSummary

Spec == Init /\ [][Next]_vars

(* --------------------- the normalisers on their own ------------------- *)

Messages == UNION { [1..n -> Chars] : n \in 0..MaxMsgLen }

\* every commit object within the bounds: any message or none, authored-
\* commit metadata present (with or without a date) or absent
AllCommits ==
    { mk_commit(1, [author |-> a, message |-> m]) :
        a \in {None, Some(Alice), Some([Alice EXCEPT !.date = None])},
        m \in {None} \cup { Some(x) : x \in Messages } }

\* every issue within the bounds: each timestamp any datetime or none
AllIssues ==
    { mk_issue(1, [pull_request |-> None, state |-> "closed",
                   created_at |-> cr, closed_at |-> cl]) :
        cr \in {None} \cup { Some(d) : d \in DateTimes },
        cl \in {None} \cup { Some(d) : d \in DateTimes } }

InitNorm ==
    /\ argv \in { a \in Argvs : a.repo # None /\ a.max = None /\ a.state = "all" }
    /\ nin \in IF argv.command = "fetch-commits" THEN { Some(c) : c \in AllCommits }
                                                   ELSE { Some(i) : i \in AllIssues }
    /\ nout = None
    /\ token = Some("token")
    /\ pc = "normalize"
    /\ error = None
    /\ usedArgs = {}
    /\ calls = <<>>
    /\ remote = <<>>
    /\ idx = 0
    /\ records = <<>>
    /\ count = 0
    /\ df = None
    /\ file = None
    /\ stdout = None

\* lines 40-53 applied to the commit nin
NormalizeCommit ==
    /\ pc = "normalize"
    /\ argv.command = "fetch-commits"
    /\ nout = None
    /\ nout' = Some(normalize_commit(nin[1]))
    /\ UNCHANGED <<argv, token, pc, error, usedArgs, calls, remote, idx, records,
                   count, df, file, stdout, nin>>

\* lines 90-107 applied to the issue nin
NormalizeIssue ==
    /\ pc = "normalize"
    /\ argv.command = "fetch-issues"
    /\ nout = None
    /\ nout' = Some(normalize_issue(nin[1]))
    /\ UNCHANGED <<argv, token, pc, error, usedArgs, calls, remote, idx, records,
                   count, df, file, stdout, nin>>

NextNorm ==
    \/ NormalizeCommit
    \/ NormalizeIssue

SpecNorm == InitNorm /\ [][NextNorm]_vars

(* ------------------------------ claims -------------------------------- *)

IsCommits == argv.command = "fetch-commits"

\* the records the remote collection holds for the pipeline: every commit,
\* every item that is no pull request
Matching == IF IsCommits THEN remote
            ELSE SelectSeq(remote, LAMBDA it : it.pull_request = None)

\* the identity of a remote object, and of the record made of it
KeyOf(x) == IF IsCommits THEN x.sha ELSE x.id

Min(a, b) == IF a <= b THEN a ELSE b

Returned == df # None

TokenAbsent == token = None \/ token = Some("")

\* C1: with maxCount = N >= 0 the number of records returned, and of rows
\* written, is min(N, number of matching records of the remote collection)
C1_RowCountIsMin ==
    (Returned /\ argv.max # None /\ argv.max[1] >= 0) =>
        /\ Len(df[1].rows) = Min(argv.max[1], Len(Matching))
        /\ file # None => Len(file[1].lines) = Min(argv.max[1], Len(Matching))

\* C2: no record of fetch_issues is made of a pull request, and the items
\* passed over are not counted: count is the number of records, which is the
\* number of non-pull-request items among those taken from the collection
C2_NoPullRequestEmitted ==
    ~IsCommits =>
        /\ \A i \in 1..Len(records) : remote[records[i].id].pull_request = None
        /\ count = Len(records)
        /\ count = Cardinality({ i \in 1..idx : remote[i].pull_request = None })
        /\ Returned =>
             \A i \in 1..Len(df[1].rows) :
                 remote[df[1].rows[i].id].pull_request = None

\* a pull request came first, was passed over and not counted: --max 1 still
\* returned the issue behind it
C2_Witness ==
    /\ ~IsCommits
    /\ pc = "done"
    /\ argv.max = Some(1)
    /\ Len(remote) >= 2
    /\ remote[1].pull_request # None
    /\ Len(df[1].rows) = 1
    /\ df[1].rows[1].id = 2

\* C3: with the token unset or empty, once a fetch function has run its
\* check the run is over with the missing-credential error; no call is ever
\* made on the remote client and no file is written
C3_MissingTokenAbortsFirst ==
    TokenAbsent =>
        /\ calls = <<>>
        /\ file = None
        /\ pc \notin {"parse_args", "dispatch", "read_token"} =>
             /\ pc = "aborted"
             /\ argv.repo # None => error = Some("EnvironmentError")

C3_Witness ==
    /\ token = Some("")
    /\ pc = "aborted"
    /\ error = Some("EnvironmentError")
    /\ calls = <<>>
    /\ file = None

HoursOf(dt) == dt.day * HoursPerDay + dt.hour

\* C4: open_duration_days is set exactly when created_at and closed_at both
\* are, and is then the number d of whole days in closed_at - created_at:
\* d days <= closed_at - created_at < d + 1 days
C4_OpenDurationFloor ==
    (~IsCommits /\ nout # None) =>
        LET issue == nin[1]
            both  == issue.created_at # None /\ issue.closed_at # None
            d     == nout[1].open_duration_days
        IN  /\ (d # None) <=> both
            /\ both =>
                 LET diff == HoursOf(issue.closed_at[1]) - HoursOf(issue.created_at[1])
                 IN  /\ d[1] * HoursPerDay <= diff
                     /\ diff < (d[1] + 1) * HoursPerDay

\* created on day 1 at 00:00, closed on day 5 at 12:00: 4 days
C4_Witness ==
    /\ ~IsCommits
    /\ nout # None
    /\ nin[1].created_at = Some([day |-> 1, hour |-> 0])
    /\ nin[1].closed_at = Some([day |-> 5, hour |-> 12])
    /\ nout[1].open_duration_days = Some(4)

\* C5: the table of fetch_commits has the columns sha, author_name,
\* author_email, date, message, in this order, and in every row the author
\* name and email of the commit's authored-commit metadata (absent only
\* when the metadata is)
C5_CommitFields ==
    (IsCommits /\ Returned) =>
        /\ df[1].columns = <<"sha", "author_name", "author_email", "date", "message">>
        /\ \A i \in 1..Len(df[1].rows) :
             LET author == remote[i].commit.author
                 row    == df[1].rows[i]
             IN  IF author = None
                 THEN row.author_name = None /\ row.author_email = None
                 ELSE row.author_name = author[1].name
                      /\ row.author_email = author[1].email

IsPrefix(s, t) == Len(s) <= Len(t) /\ \A i \in 1..Len(s) : s[i] = t[i]

Keys(seq) == [i \in 1..Len(seq) |-> KeyOf(seq[i])]

\* C6: the records collected, the rows returned and the lines written are,
\* in this order, the first ones of the remote collection (for issues: of
\* the remote collection without its pull requests)
C6_OrderPreserved ==
    /\ IsPrefix(Keys(records), Keys(Matching))
    /\ Returned => /\ IsPrefix(Keys(df[1].rows), Keys(Matching))
                   /\ Len(df[1].rows) = Len(records)
    /\ file # None =>
         /\ Len(file[1].lines) = Len(records)
         /\ \A i \in 1..Len(records) : file[1].lines[i][1] = KeyOf(Matching[i])

\* three issues were returned around a pull request, in the remote's order
C6_Witness ==
    /\ ~IsCommits
    /\ pc = "done"
    /\ Len(remote) = 4
    /\ remote[2].pull_request # None
    /\ Keys(df[1].rows) = <<1, 3, 4>>
    /\ file[1].lines[2][1] = 3

\* C7: without maxCount the loop ends only when the collection is
\* exhausted, and one record is returned for every matching item
C7_NoLimitFetchesAll ==
    argv.max = None =>
        /\ pc \in {"build_df", "to_csv", "print", "done"} =>
             /\ idx = Len(remote)
             /\ Len(records) = Len(Matching)
        /\ Returned => Keys(df[1].rows) = Keys(Matching)

C7_Witness ==
    /\ argv.max = None
    /\ pc = "done"
    /\ Len(remote) = 4
    /\ Len(df[1].rows) = IF IsCommits THEN 4 ELSE 3

\* C8: the message of a CommitRecord has no newline in it: it is the full
\* message up to its first newline, the whole of it when it has none (and
\* so empty when the full message is empty, absent or begins with a newline)
C8_MessageFirstLine ==
    (IsCommits /\ nout # None) =>
        LET m    == nin[1].commit.message
            full == IF m = None THEN <<>> ELSE m[1]
            line == nout[1].message
        IN  /\ \A i \in 1..Len(line) : line[i] # NL
            /\ IsPrefix(line, full)
            /\ Len(line) < Len(full) => full[Len(line) + 1] = NL

C8_Witness ==
    /\ IsCommits
    /\ nout # None
    /\ nin[1].commit.message = Some(<<"a", NL, "a", NL>>)
    /\ nout[1].message = <<"a">>

\* C9 as stated: with the token absent nothing of the command line is used
\* before the credential check ends the run
C9_CheckBeforeAnyArgument ==
    TokenAbsent => usedArgs = {}

\* C9 as amended: with the token absent the missing-credential error comes
\* after the command line was parsed and dispatched on (the command, --repo,
\* --max and, for issues, --state were read to call the fetch function); it
\* comes before any remote call and --out is never used
C9_CheckAfterDispatchBeforeOut ==
    TokenAbsent =>
        /\ "out" \notin usedArgs
        /\ calls = <<>>
        /\ error = Some("EnvironmentError") =>
             usedArgs = {"command", "repo", "max"}
                        \cup (IF IsCommits THEN {} ELSE {"state"})

C9_Witness ==
    /\ token = None
    /\ error = Some("EnvironmentError")
    /\ ~IsCommits
    /\ usedArgs = {"command", "repo", "max", "state"}

\* C10: a failed remote call is the last call of the run (no retry, no
\* further call); the run is then over, with no DataFrame, no file and no
\* summary; and a file exists only once the fetch is complete and holds
\* every record collected
C10_RemoteFailureIsFatal ==
    /\ \A i \in 1..Len(calls) : ~calls[i].ok => i = Len(calls)
    /\ error = Some("GithubException") =>
         /\ pc = "aborted"
         /\ ~calls[Len(calls)].ok
         /\ df = None
         /\ file = None
         /\ stdout = None
    /\ file # None =>
         /\ pc \in {"print", "done"}
         /\ error = None
         /\ Returned
         /\ Len(file[1].lines) = Len(records)
    /\ stdout # None => file # None

\* the remote failed in the middle of the iteration, after two records
C10_Witness ==
    /\ error = Some("GithubException")
    /\ Len(records) = 2
    /\ calls[Len(calls)] = call("next", FALSE)
    /\ file = None

====
